---- MODULE Spec2Model ----
(***************************************************************************)
(* Three-player contest design: the closed-form solver                     *)
(* analytical_solution of three_players.py, the linear program the same    *)
(* script builds, and the execution of the script body on import.          *)
(*                                                                         *)
(* Numbers.  The program computes in float64.  A float is modelled by an   *)
(* exact fraction <<n, d>> in lowest terms with d >= 0; d = 0 encodes the  *)
(* IEEE special values numpy produces on division by zero: <<1,0>> is      *)
(* +inf, <<-1,0>> is -inf and <<0,0>> is nan.  Rounding is not modelled.   *)
(* A bid cost is the fraction k[i] / KDen; the code's k[0], k[1], k[2] are *)
(* k[1], k[2], k[3] here.                                                  *)
(***************************************************************************)
EXTENDS Integers, Sequences, FiniteSets, TLC

\* ------------------------------------------------------------------ bounds
\* common denominator of the bid costs
KDen == 6
\* numerators of a bid cost range over -NegK .. MaxK
NegK == 1
MaxK == 21

VARIABLES
    k,        \* the bid costs handed to the code (numerators over KDen)
    pc,       \* position in the script / caller
    result,   \* value returned by analytical_solution
    x,        \* optimization_result.x returned by linprog
    argv,     \* sys.argv[1:4], the command-line bid costs (numerators)
    out,      \* sections printed on the console so far
    defined,  \* is the name analytical_solution bound in module three_players
    err       \* exception that ended the script, "" if none

vars == <<k, pc, result, x, argv, out, defined, err>>

\* --------------------------------------------------------- float arithmetic
Abs(n) == IF n < 0 THEN -n ELSE n

Sgn(n) == IF n < 0 THEN -1 ELSE IF n > 0 THEN 1 ELSE 0

RECURSIVE GCD(_, _)
GCD(a, b) == IF b = 0 THEN a ELSE GCD(b, a % b)

\* the float with value n/d
Norm(n, d) ==
    IF d = 0 THEN <<Sgn(n), 0>>
    ELSE LET s == IF d < 0 THEN -1 ELSE 1
             g == GCD(Abs(n), Abs(d))
         IN  <<(s * n) \div g, (s * d) \div g>>

R(n) == <<n, 1>>

IsNaN(a) == a[2] = 0 /\ a[1] = 0

Neg(a) == <<-a[1], a[2]>>

\* a + b
Add(a, b) ==
    IF a[2] = 0 /\ b[2] = 0
    THEN (IF a[1] = b[1] THEN a ELSE <<0, 0>>)
    ELSE LET g == GCD(a[2], b[2])
         IN  IF g = 0 THEN <<0, 0>>
             ELSE Norm(a[1] * (b[2] \div g) + b[1] * (a[2] \div g),
                       (a[2] \div g) * b[2])

\* a - b
Sub(a, b) == Add(a, Neg(b))

\* a * b
Mul(a, b) == Norm(a[1] * b[1], a[2] * b[2])

\* a / b ; numpy semantics: x/0 is +-inf, 0/0 is nan, no exception
Div(a, b) ==
    IF b[1] < 0 THEN Norm(-(a[1] * b[2]), -(a[2] * b[1]))
    ELSE Norm(a[1] * b[2], a[2] * b[1])

\* a <= b ; any comparison with nan is false
Leq(a, b) ==
    /\ ~IsNaN(a)
    /\ ~IsNaN(b)
    /\ IF a[2] = 0 /\ b[2] = 0 THEN a[1] <= b[1]
       ELSE a[1] * b[2] <= b[1] * a[2]

\* a >= b
Geq(a, b) == Leq(b, a)

\* a == b
Eq(a, b) == ~IsNaN(a) /\ ~IsNaN(b) /\ a = b

\* the float k[i] of the code (i = 1..3 for k[0]..k[2])
K(kk, i) == Norm(kk[i], KDen)

Sum3(v) == Add(Add(v[1], v[2]), v[3])

\* ------------------------------------------------------ analytical_solution
None == [kind |-> "None"]

Solution(c, s, p, r) ==
    [kind |-> "dict", case |-> c, scores |-> s, prizes |-> p, revenue |-> r]

Half == Norm(1, 2)

Case1(kk) ==
    Solution(1,
        <<Div(R(1), Mul(R(2), K(kk, 1))), Div(R(1), Mul(R(2), K(kk, 2))), R(0)>>,
        <<R(1), R(1), R(0)>>,
        Add(Div(R(1), Mul(R(2), K(kk, 1))), Div(R(1), Mul(R(2), K(kk, 2)))))

\* Case 2 with the revenue of a solver that credits Player 3's score once
Case2_RevenueSlip(kk) ==
    Solution(2,
        <<Add(Div(R(1), Mul(R(2), K(kk, 1))), Div(R(1), Mul(R(2), K(kk, 3)))),
          Div(R(1), Mul(R(2), K(kk, 3))),
          Div(R(1), Mul(R(2), K(kk, 3)))>>,
        <<R(1), Half, Half>>,
        Add(Div(R(1), Mul(R(2), K(kk, 1))), Div(R(1), Mul(R(2), K(kk, 3)))))

Case2(kk) ==
    Solution(2,
        <<Add(Div(R(1), Mul(R(2), K(kk, 1))), Div(R(1), Mul(R(2), K(kk, 3)))),
          Div(R(1), Mul(R(2), K(kk, 3))),
          Div(R(1), Mul(R(2), K(kk, 3)))>>,
        <<R(1), Half, Half>>,
        Add(Div(R(1), Mul(R(2), K(kk, 1))), Div(R(3), Mul(R(2), K(kk, 3)))))

\* Case 3 with Player 1's score taken from his own bid cost
Case3_ScoreSlip(kk) ==
    Solution(3,
        <<Div(R(1), K(kk, 1)), Div(R(1), K(kk, 3)), Div(R(1), K(kk, 3))>>,
        <<Half, Half, R(1)>>,
        Div(R(3), K(kk, 3)))

Case3(kk) ==
    Solution(3,
        <<Div(R(1), K(kk, 3)), Div(R(1), K(kk, 3)), Div(R(1), K(kk, 3))>>,
        <<Half, Half, R(1)>>,
        Div(R(3), K(kk, 3)))

\* Case 4 with Player 1's prize starting from 1 instead of 1.5
Case4_PrizeSlip(kk) ==
    Solution(4,
        <<Sub(Div(R(1), K(kk, 1)),
              Div(Sub(Div(K(kk, 3), K(kk, 1)), R(1)), Mul(R(2), K(kk, 2)))),
          Div(R(1), Mul(R(2), K(kk, 2))),
          Div(R(1), Mul(R(2), K(kk, 2)))>>,
        <<Sub(R(1), Div(K(kk, 3), Mul(R(2), K(kk, 2)))),
          Half,
          Div(K(kk, 3), Mul(R(2), K(kk, 2)))>>,
        Add(Div(R(1), K(kk, 1)),
            Div(Sub(R(3), Div(K(kk, 3), K(kk, 1))), Mul(R(2), K(kk, 2)))))

Case4(kk) ==
    Solution(4,
        <<Sub(Div(R(1), K(kk, 1)),
              Div(Sub(Div(K(kk, 3), K(kk, 1)), R(1)), Mul(R(2), K(kk, 2)))),
          Div(R(1), Mul(R(2), K(kk, 2))),
          Div(R(1), Mul(R(2), K(kk, 2)))>>,
        <<Sub(Norm(3, 2), Div(K(kk, 3), Mul(R(2), K(kk, 2)))),
          Half,
          Div(K(kk, 3), Mul(R(2), K(kk, 2)))>>,
        Add(Div(R(1), K(kk, 1)),
            Div(Sub(R(3), Div(K(kk, 3), K(kk, 1))), Mul(R(2), K(kk, 2)))))

\* Case 5 with the revenue numerator 4 of Player 1's score instead of 6
Case5_RevenueSlip(kk) ==
    Solution(5,
        <<Div(Sub(R(4), Div(Add(K(kk, 2), K(kk, 3)), K(kk, 1))), Mul(R(2), K(kk, 1))),
          Div(R(1), Mul(R(2), K(kk, 1))),
          Div(R(1), Mul(R(2), K(kk, 1)))>>,
        <<Sub(R(2), Div(Add(K(kk, 2), K(kk, 3)), Mul(R(2), K(kk, 1)))),
          Div(K(kk, 2), Mul(R(2), K(kk, 1))),
          Div(K(kk, 3), Mul(R(2), K(kk, 1)))>>,
        Div(Sub(R(4), Div(Add(K(kk, 2), K(kk, 3)), K(kk, 1))), Mul(R(2), K(kk, 1))))

Case5(kk) ==
    Solution(5,
        <<Div(Sub(R(4), Div(Add(K(kk, 2), K(kk, 3)), K(kk, 1))), Mul(R(2), K(kk, 1))),
          Div(R(1), Mul(R(2), K(kk, 1))),
          Div(R(1), Mul(R(2), K(kk, 1)))>>,
        <<Sub(R(2), Div(Add(K(kk, 2), K(kk, 3)), Mul(R(2), K(kk, 1)))),
          Div(K(kk, 2), Mul(R(2), K(kk, 1))),
          Div(K(kk, 3), Mul(R(2), K(kk, 1)))>>,
        Div(Sub(R(6), Div(Add(K(kk, 2), K(kk, 3)), K(kk, 1))), Mul(R(2), K(kk, 1))))

\* the five guards of the if-chain, as written in the code
Cond1(kk) == Geq(Div(K(kk, 3), K(kk, 2)), R(3))

Cond2(kk) ==
    /\ Leq(Div(K(kk, 3), K(kk, 2)), R(3))
    /\ Leq(R(3), Div(K(kk, 3), K(kk, 1)))

Cond3(kk) ==
    /\ Leq(Div(K(kk, 3), K(kk, 1)), R(3))
    /\ Geq(Div(K(kk, 3), K(kk, 2)), R(2))

Cond4(kk) ==
    /\ Leq(Div(K(kk, 3), K(kk, 1)), R(3))
    /\ Leq(R(3), Div(Add(K(kk, 2), K(kk, 3)), K(kk, 1)))
    /\ Leq(Div(K(kk, 3), K(kk, 1)), R(2))

Cond5(kk) ==
    /\ Leq(Div(Add(K(kk, 2), K(kk, 3)), K(kk, 1)), R(3))
    /\ Leq(Div(K(kk, 3), K(kk, 1)), R(2))

analytical_solution(kk) ==
    IF Cond1(kk) THEN Case1(kk)
    ELSE IF Cond2(kk) THEN Case2(kk)
    ELSE IF Cond3(kk) THEN Case3(kk)
    ELSE IF Cond4(kk) THEN Case4(kk)
    ELSE IF Cond5(kk) THEN Case5(kk)
    ELSE None

\* -------------------------------------------------------- the linear program
\* x = [s_1, s_2, s_3, p_1, p_2, p_3]

\* denominators of the candidate points: scores are multiples of 1/SDen,
\* prizes multiples of 1/PDen
SDen == 2
PDen == 2

c == <<R(-1), R(-1), R(-1), R(0), R(0), R(0)>>

Aub(kk) ==
    LET k0 == K(kk, 1)
        k1 == K(kk, 2)
        k2 == K(kk, 3)
    IN  << <<k0, Neg(k0), R(0), R(-1), R(0), R(0)>>,
           <<k0, R(0), Neg(k0), R(-1), R(0), R(0)>>,
           <<Neg(k1), k1, R(0), R(0), R(-1), R(0)>>,
           <<R(0), k1, Neg(k1), R(0), R(-1), R(0)>>,
           <<Neg(k2), R(0), k2, R(0), R(0), R(-1)>>,
           <<R(0), Neg(k2), k2, R(0), R(0), R(-1)>>,
           <<k0, R(0), R(0), R(-1), R(0), R(0)>>,
           <<R(0), k1, R(0), R(0), R(-1), R(0)>>,
           <<R(0), R(0), k2, R(0), R(0), R(-1)>> >>

b_ub == [r \in 1..9 |-> IF r <= 6 THEN Norm(-1, 2) ELSE R(0)]

Aeq == << <<R(0), R(0), R(0), R(1), R(1), R(1)>> >>

beq == <<R(2)>>

bounds(kk) ==
    [i \in 1..6 |-> IF i <= 3 THEN <<R(0), Div(R(1), K(kk, i))>>
                    ELSE <<R(0), R(1)>>]

\* row . pt
Dot(row, pt) ==
    Add(Add(Add(Mul(row[1], pt[1]), Mul(row[2], pt[2])),
            Add(Mul(row[3], pt[3]), Mul(row[4], pt[4]))),
        Add(Mul(row[5], pt[5]), Mul(row[6], pt[6])))

\* pt satisfies Aub pt <= b_ub, Aeq pt = beq and the bounds
LPFeasible(kk, pt) ==
    LET A == Aub(kk)
        B == bounds(kk)
    IN  /\ \A r \in 1..1 : Eq(Dot(Aeq[r], pt), beq[r])
        /\ \A i \in 1..6 : Leq(B[i][1], pt[i]) /\ Leq(pt[i], B[i][2])
        /\ \A r \in 1..9 : Leq(Dot(A[r], pt), b_ub[r])

\* the value linprog maximises: -fun = -(c . pt)
Objective(pt) == Neg(Dot(c, pt))

\* the analytical answer as a point of the program
Point(res) == res.scores \o res.prizes

\* ------------------------------------------------- the solver on its inputs
NoPoint == <<>>

Init ==
    /\ k \in [1..3 -> (0 - NegK)..MaxK]
    /\ pc = "call"
    /\ result = None
    /\ x = NoPoint
    /\ argv = <<>>
    /\ out = 0
    /\ defined = TRUE
    /\ err = ""

\* result = analytical_solution(ki), as the sweep and the scripts call it
Call ==
    /\ pc = "call"
    /\ result' = analytical_solution(k)
    /\ pc' = "done"
    /\ UNCHANGED <<k, x, argv, out, defined, err>>

Next == Call

Spec == Init /\ [][Next]_vars

\* ------------------------------------ the script body of three_players.py
\* The statements of the module run top to bottom when the script is started
\* and when another script imports it (three_players_plot.py line 16,
\* three_players_test.py line 15).

\* numerators of the command-line bid costs
ArgMin == 3
ArgMax == 9

\* sys.argv[1:4] holds at most three arguments
MaxArgs == 3

\* candidate answers of the solver: the points of the box `bounds`, on the
\* plane p_1 + p_2 + p_3 = 2, whose scores are multiples of 1/SDen and whose
\* prizes are multiples of 1/PDen
Grid(kk) ==
    LET S(i) == {Norm(j, SDen) : j \in 0..((SDen * KDen) \div kk[i])}
        P == {Norm(j, PDen) : j \in 0..PDen}
    IN  {<<s1, s2, s3, p1, p2, Sub(R(2), Add(p1, p2))>> :
            s1 \in S(1), s2 \in S(2), s3 \in S(3), p1 \in P, p2 \in P}

\* the sweep of three_players_plot.py: k_1 = 5/6, k_2 = 1, k_3 from 1 to 3.5
k_grid ==
    [i \in 1..(((7 * KDen) \div 2) - KDen + 1) |->
        <<(5 * KDen) \div 6, KDen, KDen + i - 1>>]

InitScript ==
    /\ argv \in UNION {[1..n -> ArgMin..ArgMax] : n \in 0..MaxArgs}
    /\ k = <<>>
    /\ pc = "argv"
    /\ result = None
    /\ x = NoPoint
    /\ out = 0
    /\ defined = FALSE
    /\ err = ""

\* k = np.array(sys.argv[1:4], dtype=float)
ReadArgv ==
    /\ pc = "argv"
    /\ k' = argv
    /\ pc' = "print_inputs"
    /\ UNCHANGED <<result, x, argv, out, defined, err>>

\* print(" Inputs ") ... print("Bid costs: ", k)
PrintInputs ==
    /\ pc = "print_inputs"
    /\ out' = out + 1
    /\ pc' = "build_lp"
    /\ UNCHANGED <<k, result, x, argv, defined, err>>

\* c, Aub, b_ub, Aeq, beq, bounds; Aub indexes k[0], k[1], k[2]
BuildLP ==
    /\ pc = "build_lp"
    /\ \/ /\ Len(k) < 3
          /\ err' = "IndexError"
          /\ pc' = "failed"
       \/ /\ Len(k) = 3
          /\ err' = err
          /\ pc' = "linprog"
    /\ UNCHANGED <<k, result, x, argv, out, defined>>

\* optimization_result = linprog(c, Aub, b_ub, Aeq, beq, bounds); the solver
\* is a collaborator, its answer is taken to be any candidate that satisfies
\* the program
Linprog ==
    /\ pc = "linprog"
    /\ x' \in {pt \in Grid(k) : LPFeasible(k, pt)}
    /\ pc' = "print_numerical"
    /\ UNCHANGED <<k, result, argv, out, defined, err>>

\* print(" Numerical Results ") ... print("Numerical revenue: ", ...)
PrintNumerical ==
    /\ pc = "print_numerical"
    /\ out' = out + 1
    /\ pc' = "def"
    /\ UNCHANGED <<k, result, x, argv, defined, err>>

\* def analytical_solution(k): ...
DefAnalytical ==
    /\ pc = "def"
    /\ defined' = TRUE
    /\ pc' = "solution"
    /\ UNCHANGED <<k, result, x, argv, out, err>>

\* solution = analytical_solution(k)
CallAnalytical ==
    /\ pc = "solution"
    /\ result' = analytical_solution(k)
    /\ pc' = "print_analytical"
    /\ UNCHANGED <<k, x, argv, out, defined, err>>

\* print(" Analytical Results ") ... print(solution["scores"]) ...
PrintAnalytical ==
    /\ pc = "print_analytical"
    /\ out' = out + 1
    /\ \/ /\ result.kind = "None"
          /\ err' = "TypeError"
          /\ pc' = "failed"
       \/ /\ result.kind = "dict"
          /\ err' = err
          /\ pc' = "imported"
    /\ UNCHANGED <<k, result, x, argv, defined>>

\* the importer's loop: for ki in k_grid: result = analytical_solution(ki);
\* scores.append(result["scores"]) ...
SweepCall ==
    /\ pc \in {"imported", "sweep"}
    /\ LET i == IF pc = "imported" THEN 1 ELSE k[3] - KDen + 2
       IN  /\ i <= Len(k_grid)
           /\ k' = k_grid[i]
           /\ result' = analytical_solution(k_grid[i])
           /\ \/ /\ analytical_solution(k_grid[i]).kind = "None"
                 /\ err' = "TypeError"
                 /\ pc' = "failed"
              \/ /\ analytical_solution(k_grid[i]).kind = "dict"
                 /\ err' = err
                 /\ pc' = "sweep"
    /\ UNCHANGED <<x, argv, out, defined>>

NextScript ==
    \/ ReadArgv
    \/ PrintInputs
    \/ BuildLP
    \/ Linprog
    \/ PrintNumerical
    \/ DefAnalytical
    \/ CallAnalytical
    \/ PrintAnalytical
    \/ SweepCall

SpecScript == InitScript /\ [][NextScript]_vars

\* ------------------------------------------------------------ input classes
AllPositive(kk) == \A i \in 1..3 : kk[i] > 0

Ordered(kk) == kk[1] <= kk[2] /\ kk[2] <= kk[3]

Valid(kk) == AllPositive(kk) /\ Ordered(kk)

\* the regime boundaries, tested on the floats the code compares
On12(kk) == Eq(Div(K(kk, 3), K(kk, 2)), R(3))

On23(kk) == Eq(Div(K(kk, 3), K(kk, 1)), R(3))

On34(kk) == Eq(Div(K(kk, 3), K(kk, 2)), R(2))

On45(kk) == Eq(Div(Add(K(kk, 2), K(kk, 3)), K(kk, 1)), R(3))

\* ------------------------------------------------------------------- claims

\* C1 (exhaustiveness): for every triple of strictly positive bid costs with
\* k_1 <= k_2 <= k_3 the call returns a solution record of one of the five
\* cases; no such input falls through the five conditions.
C1_Exhaustive ==
    (pc = "done" /\ Valid(k)) =>
        (result.kind = "dict" /\ result.case \in 1..5)

\* C2 (priority chain): for every valid triple the call returns the solution
\* of the first case, in the order 1..5, whose condition holds
\* (1: k3/k2 >= 3; 2: k3/k1 >= 3; 3: k3/k2 >= 2; 4: (k2+k3)/k1 >= 3;
\* 5: otherwise).
C2_PriorityChain ==
    (pc = "done" /\ Valid(k)) =>
        LET first ==
                IF Geq(Div(K(k, 3), K(k, 2)), R(3)) THEN Case1(k)
                ELSE IF Geq(Div(K(k, 3), K(k, 1)), R(3)) THEN Case2(k)
                ELSE IF Geq(Div(K(k, 3), K(k, 2)), R(2)) THEN Case3(k)
                ELSE IF Geq(Div(Add(K(k, 2), K(k, 3)), K(k, 1)), R(3)) THEN Case4(k)
                ELSE Case5(k)
        IN  result = first

\* C4 (the analytical point is LP-feasible): for every valid triple the
\* returned (scores, prizes) satisfies the six IC rows, the three IR rows,
\* p_1 + p_2 + p_3 = 2 and the box bounds of the linear program.
C4_AnalyticFeasible ==
    (pc = "done" /\ Valid(k)) =>
        (result.kind = "dict" /\ LPFeasible(k, Point(result)))

\* C5 (prize conservation): whenever the call returns a solution for a
\* positive triple, the three returned prizes sum to exactly 2.
C5_PrizesSumToTwo ==
    (pc = "done" /\ AllPositive(k) /\ result.kind = "dict") =>
        Eq(Sum3(result.prizes), R(2))

C5_Witness ==
    /\ pc = "done"
    /\ AllPositive(k)
    /\ result.kind = "dict"
    /\ result.case = 4
    /\ ~Eq(result.prizes[1], R(1))
    /\ Eq(Sum3(result.prizes), R(2))

\* C6 (domain rejection): when a bid cost is zero or negative the call fails
\* with a domain error; it returns no solution record.
C6_DomainRejection ==
    (pc = "done" /\ ~AllPositive(k)) =>
        (err = "DomainError" /\ result.kind # "dict")

\* C7 (revenue continuity): on each regime boundary of a valid triple the
\* revenue formulas of the two adjacent cases have the same value
\* (1|2 at k3/k2 = 3; 2|3 and 2|4 at k3/k1 = 3; 3|4 at k3/k2 = 2;
\* 4|5 at (k2+k3)/k1 = 3).
C7_RevenueContinuous ==
    (pc = "done" /\ Valid(k)) =>
        /\ On12(k) => Eq(Case1(k).revenue, Case2(k).revenue)
        /\ On23(k) => /\ Eq(Case2(k).revenue, Case3(k).revenue)
                      /\ Eq(Case2(k).revenue, Case4(k).revenue)
        /\ On34(k) => Eq(Case3(k).revenue, Case4(k).revenue)
        /\ On45(k) => Eq(Case4(k).revenue, Case5(k).revenue)

C7_Witness ==
    /\ pc = "done"
    /\ Valid(k)
    /\ On12(k)
    /\ On23(k)
    /\ result.kind = "dict"
    /\ result.case = 1
    /\ Eq(result.revenue, Case2(k).revenue)
    /\ Eq(result.revenue, Case3(k).revenue)

\* C8 as stated (score continuity on every boundary): on each regime boundary
\* of a valid triple the score triples of the two adjacent cases are equal
\* component by component.
C8_ScoresContinuousEverywhere ==
    (pc = "done" /\ Valid(k)) =>
        /\ On12(k) => Case1(k).scores = Case2(k).scores
        /\ On23(k) => /\ Case2(k).scores = Case3(k).scores
                      /\ Case2(k).scores = Case4(k).scores
        /\ On34(k) => Case3(k).scores = Case4(k).scores
        /\ On45(k) => Case4(k).scores = Case5(k).scores

\* C8 as amended: on the boundary k3/k2 = 2 between cases 3 and 4 of a valid
\* triple the two score triples are equal component by component.
C8_ScoresContinuous34 ==
    (pc = "done" /\ Valid(k) /\ On34(k)) =>
        \A i \in 1..3 : Eq(Case3(k).scores[i], Case4(k).scores[i])

C8_Witness ==
    /\ pc = "done"
    /\ Valid(k)
    /\ On34(k)
    /\ result.kind = "dict"
    /\ result.case = 3
    /\ k[1] < k[2]
    /\ result.scores = Case4(k).scores

\* C9 (revenue is the sum of scores): whenever the call returns a solution
\* for a positive triple, revenue = scores[0] + scores[1] + scores[2], and
\* the revenue is non-negative when k_1 <= k_2 <= k_3.
C9_RevenueIsSumOfScores ==
    (pc = "done" /\ AllPositive(k) /\ result.kind = "dict") =>
        /\ Eq(result.revenue, Sum3(result.scores))
        /\ Ordered(k) => Geq(result.revenue, R(0))

C9_Witness ==
    /\ pc = "done"
    /\ Valid(k)
    /\ result.kind = "dict"
    /\ result.case = 5
    /\ k[2] < k[3]
    /\ Eq(result.revenue, Sum3(result.scores))
    /\ Geq(result.revenue, R(0))

\* C3 (cross-method consistency): for every valid triple the revenue returned
\* by analytical_solution is the optimal value of the linear program built
\* from the same k: the analytical point satisfies the program and no point
\* that satisfies it has a larger sum of scores.
C3_RevenueIsLPOptimum ==
    (pc = "print_analytical" /\ Valid(k)) =>
        /\ result.kind = "dict"
        /\ LPFeasible(k, Point(result))
        /\ Leq(Objective(x), result.revenue)

\* C10 (no side effects): a caller that obtained analytical_solution from
\* three_players has caused nothing to be printed and no linear program to
\* be solved, and a caller without command-line bid costs obtains it.
C10_ImportIsPure ==
    /\ pc \in {"imported", "sweep"} => (out = 0 /\ x = NoPoint)
    /\ argv = <<>> => pc # "failed"

====
